---- MODULE Spec2Model ----
(***************************************************************************)
(* State-machine model of two components of the VM:                        *)
(*   - the tiering controller  (src/src/execution/tiering-manager.cc)      *)
(*   - the builtins registry   (src/src/builtins/builtins.cc)              *)
(* One JSFunction with its feedback vector, shared function info and       *)
(* bytecode array is tracked for the controller; one isolate's builtin     *)
(* tables are tracked for the registry.                                    *)
(*                                                                         *)
(* Spec          : the tiering controller and its environment.             *)
(* SpecBuiltins  : the builtins registry.                                  *)
(* SpecLive      : the controller under recurring ticks (fairness).        *)
(* SpecBudget    : the interrupt-budget queries.                           *)
(* SpecICWindow  : ticks and IC notifications of the execution thread.     *)
(* SpecAllowance : the OSR size allowance over the tick counter's range.   *)
(* SpecConcurrentIC : ticks with IC notifications from other threads.      *)
(***************************************************************************)
EXTENDS Integers, Sequences, FiniteSets, TLC

VARIABLES
  flags,                  \* FLAG_* booleans read by the controller (fixed after startup)
  is_user_javascript,     \* SharedFunctionInfo::IsUserJavaScript()
  bytecode_length,        \* BytecodeArray::length()
  has_feedback_vector,    \* JSFunction::has_feedback_vector()
  profiler_ticks,         \* FeedbackVector::profiler_ticks()
  marker,                 \* FeedbackVector optimization marker
  has_optimized_code,     \* JSFunction::HasAvailableOptimizedCode()
  tier,                   \* JSFunction::GetActiveTier()
  optimization_disabled,  \* SharedFunctionInfo::optimization_disabled()
  osr_loop_nesting_level, \* BytecodeArray::osr_loop_nesting_level()
  osr_cache,              \* OSROptimizedCodeCache entries of the SFI (jump offsets, in order)
  any_ic_changed_,        \* TieringManager::any_ic_changed_
  baseline_pending,       \* function sits in the baseline batch compiler's queue
  ev,                     \* what the last controller operation did (observation record)
  builtin_table,          \* IsolateData::builtin_table()
  builtin_entry_table,    \* IsolateData::builtin_entry_table()
  builtin_tier0_table,    \* IsolateData::builtin_tier0_table()
  builtin_tier0_entry_table, \* IsolateData::builtin_tier0_entry_table()
  initialized_,           \* Builtins::initialized_
  q,                      \* the last registry operation, its arguments and results
  tick_pc,                \* where a tick in progress stands: "idle" or "in_scope"
  notified_since_tick,    \* NotifyICChanged was called since the last tick returned
  notified_since_scope,   \* ... since the last OnInterruptTickScope was left
  notified_in_scope       \* ... while the last scope was open, after its decision

tvars == <<flags, is_user_javascript, bytecode_length, has_feedback_vector,
           profiler_ticks, marker, has_optimized_code, tier,
           optimization_disabled, osr_loop_nesting_level, osr_cache,
           any_ic_changed_, baseline_pending, ev>>

bvars == <<builtin_table, builtin_entry_table, builtin_tier0_table,
           builtin_tier0_entry_table, initialized_, q>>

\* position of a tick taken step by step, and history of NotifyICChanged calls
hvars == <<tick_pc, notified_since_tick, notified_since_scope,
           notified_in_scope>>

vars == <<tvars, bvars, hvars>>

Min(a, b) == IF a <= b THEN a ELSE b

----------------------------------------------------------------------------
(* Program constants *)

kOSRBytecodeSizeAllowanceBase == 119
kOSRBytecodeSizeAllowancePerTick == 44

(* Flag values and model bounds *)

\* AbstractCode::kMaxLoopNestingMarker (its value is not fixed by the sources
\* modelled here; the model runs with a small one)
kMaxLoopNestingMarker == 3

\* FLAG_ticks_before_optimization
FLAG_ticks_before_optimization == 2
\* FLAG_bytecode_size_allowance_per_tick
FLAG_bytecode_size_allowance_per_tick == 200
\* FLAG_max_bytecode_size_for_early_opt
FLAG_max_bytecode_size_for_early_opt == 80
\* saturation limit of the profiler tick counter
kMaxProfilerTicks == 3
\* largest loop_nesting_levels argument of a direct AttemptOnStackReplacement call
MaxNestingArg == 1

\* FLAG_interrupt_budget
FLAG_interrupt_budget == 12
\* FLAG_interrupt_budget_for_maglev
FLAG_interrupt_budget_for_maglev == 4
\* FLAG_interrupt_budget_factor_for_feedback_allocation
FLAG_interrupt_budget_factor_for_feedback_allocation == 2
\* FLAG_interrupt_budget_for_feedback_allocation
FLAG_interrupt_budget_for_feedback_allocation == 9

\* bytecode lengths of the modelled functions
BytecodeLengths == {40, 240}

\* JumpLoop bytecodes of the modelled bytecode array: offset of the JumpLoop,
\* its jump target and its loop-depth immediate operand (operand 1).
JumpLoops == { [jump_offset |-> 30, jump_target_offset |-> 10, imm |-> 0],
               [jump_offset |-> 25, jump_target_offset |-> 15, imm |-> 1] }

\* bytecode offsets at which an interpreted frame may be when a tick fires
FrameOffsets == {5, 20, 28}

----------------------------------------------------------------------------
(* Values *)

CodeKinds == {"INTERPRETED_FUNCTION", "BASELINE", "MAGLEV", "TURBOFAN"}

Markers == {"kNone", "kInOptimizationQueue",
            "kCompileMaglev_NotConcurrent", "kCompileMaglev_Concurrent",
            "kCompileTurbofan_NotConcurrent", "kCompileTurbofan_Concurrent"}

Maglev == [optimization_reason |-> "kHotAndStable", code_kind |-> "MAGLEV",
           concurrency_mode |-> "kNotConcurrent"]
TurbofanHotAndStable == [optimization_reason |-> "kHotAndStable",
                         code_kind |-> "TURBOFAN",
                         concurrency_mode |-> "kConcurrent"]
TurbofanSmallFunction == [optimization_reason |-> "kSmallFunction",
                          code_kind |-> "TURBOFAN",
                          concurrency_mode |-> "kConcurrent"]
DoNotOptimize == [optimization_reason |-> "kDoNotOptimize",
                  code_kind |-> "TURBOFAN",
                  concurrency_mode |-> "kConcurrent"]
\* ShouldOptimize was not evaluated
NoDecision == [optimization_reason |-> "none", code_kind |-> "none",
               concurrency_mode |-> "none"]

should_optimize(d) == d.optimization_reason # "kDoNotOptimize"

----------------------------------------------------------------------------
(* Collaborators of the controller *)

CodeKindIsUnoptimizedJSFunction(kind) ==
  kind \in {"INTERPRETED_FUNCTION", "BASELINE"}

IsInOptimizationQueue == marker = "kInOptimizationQueue"
IsMarkedForOptimization ==
  marker \in {"kCompileMaglev_NotConcurrent", "kCompileTurbofan_NotConcurrent"}
IsMarkedForConcurrentOptimization ==
  marker \in {"kCompileMaglev_Concurrent", "kCompileTurbofan_Concurrent"}
HasAvailableOptimizedCode == has_optimized_code
\* JSFunction::ActiveTierIsBaseline
ActiveTierIsBaseline == tier = "BASELINE"

OptimizationMarkerFor(kind, mode) ==
  IF kind = "MAGLEV"
  THEN (IF mode = "kConcurrent" THEN "kCompileMaglev_Concurrent"
        ELSE "kCompileMaglev_NotConcurrent")
  ELSE (IF mode = "kConcurrent" THEN "kCompileTurbofan_Concurrent"
        ELSE "kCompileTurbofan_NotConcurrent")

\* JSFunction::MarkForOptimization: the new optimization marker
MarkForOptimization(kind, mode) == OptimizationMarkerFor(kind, mode)

\* FeedbackVector::SaturatingIncrementProfilerTicks
SaturatingIncrementProfilerTicks(ticks) ==
  IF ticks < kMaxProfilerTicks THEN ticks + 1 ELSE ticks

JumpLoopAt(offset) == CHOOSE l \in JumpLoops : l.jump_offset = offset

----------------------------------------------------------------------------
(* TieringManager *)

\* (mutant) no check of FLAG_use_osr and IsUserJavaScript
AttemptOnStackReplacement_Ungated(level, loop_nesting_levels) ==
  IF optimization_disabled THEN level
  ELSE Min(level + loop_nesting_levels, kMaxLoopNestingMarker)

\* (mutant) the new level without the cap
AttemptOnStackReplacement_NoCap(level, loop_nesting_levels) ==
  IF ~flags.use_osr \/ ~is_user_javascript THEN level
  ELSE IF optimization_disabled THEN level
  ELSE level + loop_nesting_levels

\* AttemptOnStackReplacement(frame, loop_nesting_levels): the bytecode array's
\* new osr_loop_nesting_level, given its current one.
AttemptOnStackReplacement(level, loop_nesting_levels) ==
  IF ~flags.use_osr \/ ~is_user_javascript THEN level
  ELSE IF optimization_disabled THEN level
  ELSE Min(level + loop_nesting_levels, kMaxLoopNestingMarker)

\* (mutant) the kind of the active code left out
TiersUpToMaglev_AnyKind(code_kind) == flags.maglev

TiersUpToMaglev(code_kind) ==
  flags.maglev /\ CodeKindIsUnoptimizedJSFunction(code_kind)

\* Largest value of the C++ int, at the width this model gives it
kMaxInt == 2047

\* A value reduced into the range of int (two's complement wrap-around)
WrapInt(x) ==
  ((x + kMaxInt + 1) % (2 * (kMaxInt + 1))) - (kMaxInt + 1)

\* Results of an int expression whose mathematical value is x.  A value out
\* of range is signed overflow, which is undefined: the build yields the
\* wrapped value (int arithmetic) or the exact one (the arithmetic done at
\* the width of the int64_t the result is assigned to).
IntResults(x) ==
  IF -(kMaxInt + 1) <= x /\ x <= kMaxInt THEN {x} ELSE {WrapInt(x), x}

\* MaybeOSR, lines 236-237: the values allowance can get for a tick count.
\* Both operands are ints, the sum is widened to int64_t afterwards.
OSRAllowances(ticks) ==
  IntResults(kOSRBytecodeSizeAllowanceBase +
             ticks * kOSRBytecodeSizeAllowancePerTick)

\* Smi::kMaxValue at the model's width: the limit at which
\* SaturatingIncrementProfilerTicks leaves the counter (Spec bounds the
\* counter lower, at kMaxProfilerTicks)
kSmiMaxValue == kMaxInt \div 2

\* (mutant) optimized code that is available does not count
MaybeOSR_IgnoresOptimizedCode(level, allowance) ==
  IF IsMarkedForOptimization \/ IsMarkedForConcurrentOptimization
  THEN [ret |-> TRUE,
        level |-> IF bytecode_length <= allowance
                  THEN AttemptOnStackReplacement(level, 1)
                  ELSE level]
  ELSE [ret |-> FALSE, level |-> level]

\* (mutant) a marker that does not count
MaybeOSR_IgnoresMarker(level, allowance) ==
  IF HasAvailableOptimizedCode
  THEN [ret |-> TRUE,
        level |-> IF bytecode_length <= allowance
                  THEN AttemptOnStackReplacement(level, 1)
                  ELSE level]
  ELSE [ret |-> FALSE, level |-> level]

\* (mutant) an allowance that does not grow with the ticks
MaybeOSR_NoTickAllowance(level, allowance) ==
  IF IsMarkedForOptimization \/ IsMarkedForConcurrentOptimization
       \/ HasAvailableOptimizedCode
  THEN [ret |-> TRUE,
        level |-> IF bytecode_length <= kOSRBytecodeSizeAllowanceBase
                  THEN AttemptOnStackReplacement(level, 1)
                  ELSE level]
  ELSE [ret |-> FALSE, level |-> level]

\* MaybeOSR(function, frame): return value and the new nesting level, for
\* the allowance computed at lines 236-237
MaybeOSR(level, allowance) ==
  IF IsMarkedForOptimization \/ IsMarkedForConcurrentOptimization
       \/ HasAvailableOptimizedCode
  THEN [ret |-> TRUE,
        level |-> IF bytecode_length <= allowance
                  THEN AttemptOnStackReplacement(level, 1)
                  ELSE level]
  ELSE [ret |-> FALSE, level |-> level]

\* (mutant) the small-function test without the IC-change condition
ShouldOptimizeAsSmallFunction_IgnoresIC(bytecode_size, any_ic_changed) ==
  bytecode_size < FLAG_max_bytecode_size_for_early_opt

ShouldOptimizeAsSmallFunction(bytecode_size, any_ic_changed) ==
  ~any_ic_changed /\ bytecode_size < FLAG_max_bytecode_size_for_early_opt

\* (mutant) no top-tier check
AlreadyInTopTier_Never(code_kind) == FALSE

\* ShouldOptimize, line 262: the function already runs top-tier code
AlreadyInTopTier(code_kind) == code_kind = "TURBOFAN"

\* Indices of the cached jump offsets whose loop range brackets current_offset
CacheHits(current_offset) ==
  {i \in 1..Len(osr_cache) :
     /\ osr_cache[i] >= current_offset
     /\ current_offset >= JumpLoopAt(osr_cache[i]).jump_target_offset}

\* (mutant) the last bracketing entry instead of the first
FirstHit_Last(current_offset) ==
  CHOOSE i \in CacheHits(current_offset) :
    \A j \in CacheHits(current_offset) : i >= j

\* the first bracketing entry in cache order (the loop returns at its first hit)
FirstHit(current_offset) ==
  CHOOSE i \in CacheHits(current_offset) :
    \A j \in CacheHits(current_offset) : i <= j

\* (mutant) a threshold without the size term
ticks_for_optimization_NoSizeTerm == FLAG_ticks_before_optimization

\* lines 294-296
ticks_for_optimization ==
  FLAG_ticks_before_optimization +
  (bytecode_length \div FLAG_bytecode_size_allowance_per_tick)

\* ShouldOptimize(function, code_kind, frame): the decision and the new
\* osr_loop_nesting_level.  The frame is unoptimized (tiering-manager.cc:393).
ShouldOptimize(code_kind, level, ticks, current_offset) ==
  IF TiersUpToMaglev(code_kind) THEN [d |-> Maglev, level |-> level]
  ELSE IF AlreadyInTopTier(code_kind)
  THEN [d |-> DoNotOptimize, level |-> level]
  ELSE IF Len(osr_cache) > 0 /\ CacheHits(current_offset) # {}
  THEN [d |-> TurbofanHotAndStable,
        level |-> JumpLoopAt(osr_cache[FirstHit(current_offset)]).imm + 1]
  ELSE IF ticks >= ticks_for_optimization
  THEN [d |-> TurbofanHotAndStable, level |-> level]
  ELSE IF ShouldOptimizeAsSmallFunction(bytecode_length, any_ic_changed_)
  THEN [d |-> TurbofanSmallFunction, level |-> level]
  ELSE [d |-> DoNotOptimize, level |-> level]

\* (mutant) no early return for a queued function
AlreadyInOptimizationQueue_Never == FALSE

\* MaybeOptimizeFrame, line 202: the function is already in the queue
AlreadyInOptimizationQueue == IsInOptimizationQueue

\* (mutant) no early return for a function with optimization disabled
OptimizationIsDisabled_Never == FALSE

\* MaybeOptimizeFrame, line 215
OptimizationIsDisabled == optimization_disabled

\* Optimize(function, code_kind, d): the function's new optimization marker
Optimize(d) == MarkForOptimization(d.code_kind, d.concurrency_mode)

\* (mutant) the test-harness check made after the OSR step
MaybeOptimizeFrame_GateAfterOSR(code_kind, level, ticks, current_offset, allowed, allowance) ==
  IF AlreadyInOptimizationQueue
  THEN [path |-> "in_queue", level |-> level, marker |-> marker,
        marks |-> 0, d |-> NoDecision]
  ELSE IF OptimizationIsDisabled
  THEN [path |-> "disabled", level |-> level, marker |-> marker,
        marks |-> 0, d |-> NoDecision]
  ELSE LET osr == IF flags.always_osr
                  THEN [ret |-> FALSE,
                        level |-> AttemptOnStackReplacement(
                                    level, kMaxLoopNestingMarker)]
                  ELSE MaybeOSR(level, allowance)
       IN IF osr.ret
          THEN [path |-> "osr", level |-> osr.level, marker |-> marker,
                marks |-> 0, d |-> NoDecision]
          ELSE IF flags.testing_d8_test_runner /\ ~allowed
          THEN [path |-> "gate", level |-> osr.level, marker |-> marker,
                marks |-> 0, d |-> NoDecision]
          ELSE LET r == ShouldOptimize(code_kind, osr.level, ticks,
                                       current_offset)
               IN [path |-> "decided", level |-> r.level,
                   marker |-> IF should_optimize(r.d) THEN Optimize(r.d)
                              ELSE marker,
                   marks |-> IF should_optimize(r.d) THEN 1 ELSE 0,
                   d |-> r.d]

\* MaybeOptimizeFrame(function, frame, code_kind) on an unoptimized frame.
\* allowed is PendingOptimizationTable::IsHeuristicOptimizationAllowed,
\* allowance the OSR size allowance MaybeOSR computes.
\* Result: exit path, new nesting level, new marker, number of
\* MarkForOptimization calls, the decision of ShouldOptimize (if evaluated).
MaybeOptimizeFrame(code_kind, level, ticks, current_offset, allowed, allowance) ==
  IF AlreadyInOptimizationQueue
  THEN [path |-> "in_queue", level |-> level, marker |-> marker,
        marks |-> 0, d |-> NoDecision]
  ELSE IF flags.testing_d8_test_runner /\ ~allowed
  THEN [path |-> "gate", level |-> level, marker |-> marker,
        marks |-> 0, d |-> NoDecision]
  ELSE IF OptimizationIsDisabled
  THEN [path |-> "disabled", level |-> level, marker |-> marker,
        marks |-> 0, d |-> NoDecision]
  ELSE LET osr == IF flags.always_osr
                  THEN [ret |-> FALSE,
                        level |-> AttemptOnStackReplacement(
                                    level, kMaxLoopNestingMarker)]
                  ELSE MaybeOSR(level, allowance)
       IN IF osr.ret
          THEN [path |-> "osr", level |-> osr.level, marker |-> marker,
                marks |-> 0, d |-> NoDecision]
          ELSE LET r == ShouldOptimize(code_kind, osr.level, ticks,
                                       current_offset)
               IN [path |-> "decided", level |-> r.level,
                   marker |-> IF should_optimize(r.d) THEN Optimize(r.d)
                              ELSE marker,
                   marks |-> IF should_optimize(r.d) THEN 1 ELSE 0,
                   d |-> r.d]

\* (mutant) an increment that wraps around at the counter's limit
IncrementProfilerTicks_Wraps(ticks) == (ticks + 1) % (kMaxProfilerTicks + 1)

\* line 390: the tick's increment of the function's profiler ticks
IncrementProfilerTicks(ticks) == SaturatingIncrementProfilerTicks(ticks)

EvNone == [op |-> "external", path |-> "none", marks |-> 0,
           d |-> NoDecision, ic |-> FALSE, arg |-> 0, baseline |-> "none",
           pending_exception |-> FALSE, ret |-> 0]

\* The inputs of a tick are enumerated only where the tick reads them.
\* isolate_->use_optimizer() is read by a tick that had a feedback vector.
UseOptimizerResults == IF has_feedback_vector THEN BOOLEAN ELSE {TRUE}

\* the tick gets as far as MaybeOptimizeFrame's checks
ReachesChecks(use_optimizer) ==
  has_feedback_vector /\ use_optimizer /\ ~IsInOptimizationQueue

\* Results of IsHeuristicOptimizationAllowed (consulted only under
\* FLAG_testing_d8_test_runner, for a function that is not in the queue)
AllowedResults(use_optimizer) ==
  IF ReachesChecks(use_optimizer) /\ flags.testing_d8_test_runner
  THEN BOOLEAN ELSE {TRUE}

\* Results of CanCompileWithBaseline (its result matters only for a function
\* whose active tier is not baseline)
CanCompileResults == IF ~ActiveTierIsBaseline THEN BOOLEAN ELSE {FALSE}

\* Frame offsets the tick can observe: GetBytecodeOffset is read (line 275)
\* only by a tick that reaches ShouldOptimize's OSR-code-cache check with
\* entries in the cache.
OffsetsRead(use_optimizer, allowed, code_kind, allowance) ==
  IF /\ ReachesChecks(use_optimizer)
     /\ ~flags.testing_d8_test_runner \/ allowed
     /\ ~optimization_disabled
     /\ flags.always_osr \/ ~MaybeOSR(osr_loop_nesting_level, allowance).ret
     /\ ~TiersUpToMaglev(code_kind)
     /\ code_kind # "TURBOFAN"
     /\ Len(osr_cache) > 0
  THEN FrameOffsets ELSE {0}

\* Results of the synchronous baseline compile (run only without batch
\* compilation, for a function whose active tier is not baseline)
CompileBaselineResults(can_baseline) ==
  IF can_baseline /\ ~flags.baseline_batch_compilation /\ ~ActiveTierIsBaseline
  THEN BOOLEAN ELSE {TRUE}

\* (mutant) the compile called with the flag that keeps the exception
kBaselineCompileFlag_Keep == "KEEP_EXCEPTION"

\* line 372: the ClearExceptionFlag passed to Compiler::CompileBaseline
kBaselineCompileFlag == "CLEAR_EXCEPTION"

\* Compiler::CompileBaseline(isolate, function, flag, scope): whether baseline
\* code was installed and whether an exception is left pending on the isolate
CompileBaseline(flag, succeeds) ==
  [compiled |-> succeeds,
   pending_exception |-> (~succeeds /\ flag = "KEEP_EXCEPTION")]

\* (mutant) tiering beyond baseline on the tick that allocates the vector
TiersBeyondSparkplug_Always(had_feedback_vector) == TRUE

\* line 378: only a tick that already had a feedback vector goes on
TiersBeyondSparkplug(had_feedback_vector) == had_feedback_vector

\* (mutant) a scope whose exit sets the flag
OnInterruptTickScopeExit_Sets(any_ic_changed) == TRUE

\* (mutant) a scope whose exit leaves the flag as it is
OnInterruptTickScopeExit_Keeps(any_ic_changed) == any_ic_changed

\* ~OnInterruptTickScope(): the value of any_ic_changed_ after the store
OnInterruptTickScopeExit(any_ic_changed) == FALSE

\* OnInterruptTick(function).  Inputs of the tick:
\*   allowed        IsHeuristicOptimizationAllowed(function)
\*   use_optimizer  isolate_->use_optimizer()
\*   can_baseline   CanCompileWithBaseline(isolate_, function->shared())
\*   succeeds       the synchronous Compiler::CompileBaseline succeeds
\*   current_offset bytecode offset of the interpreted frame
\*   allowance      the value of MaybeOSR's int arithmetic
\* The tick is taken through the end of its OnInterruptTickScope (scope_exit)
\* or up to it, the scope still open.
OnInterruptTickUpTo(scope_exit) ==
  \E use_optimizer \in UseOptimizerResults, can_baseline \in CanCompileResults :
   \E allowed \in AllowedResults(use_optimizer),
      succeeds \in CompileBaselineResults(can_baseline) :
    LET had_feedback_vector == has_feedback_vector
        wants_baseline == can_baseline /\ ~ActiveTierIsBaseline
        enqueue == wants_baseline /\ flags.baseline_batch_compilation
        compile == wants_baseline /\ ~flags.baseline_batch_compilation
        c == IF compile THEN CompileBaseline(kBaselineCompileFlag, succeeds)
             ELSE [compiled |-> FALSE, pending_exception |-> FALSE]
        code_kind == IF c.compiled /\ tier = "INTERPRETED_FUNCTION"
                     THEN "BASELINE" ELSE tier
        baseline == IF enqueue THEN "enqueued"
                    ELSE IF ~compile THEN "none"
                    ELSE IF c.compiled THEN "compiled" ELSE "failed"
        ticks == IncrementProfilerTicks(profiler_ticks)
        early == [EvNone EXCEPT !.op = "OnInterruptTick",
                                !.baseline = baseline,
                                !.pending_exception = c.pending_exception]
    IN
    \E allowance \in OSRAllowances(ticks) :
    \E current_offset \in
         OffsetsRead(use_optimizer, allowed, code_kind, allowance) :
     LET r == MaybeOptimizeFrame(code_kind, osr_loop_nesting_level, ticks,
                                 current_offset, allowed, allowance)
     IN
       /\ has_feedback_vector' = TRUE
       /\ tier' = code_kind
       /\ baseline_pending' = (baseline_pending \/ enqueue)
       /\ IF ~TiersBeyondSparkplug(had_feedback_vector)
          THEN /\ ev' = [early EXCEPT !.path = "no_vector"]
               /\ UNCHANGED <<profiler_ticks, marker, osr_loop_nesting_level,
                              any_ic_changed_>>
          ELSE IF ~use_optimizer
          THEN /\ ev' = [early EXCEPT !.path = "no_optimizer"]
               /\ UNCHANGED <<profiler_ticks, marker, osr_loop_nesting_level,
                              any_ic_changed_>>
          ELSE /\ profiler_ticks' = ticks
               /\ marker' = r.marker
               /\ osr_loop_nesting_level' = r.level
               /\ any_ic_changed_' =
                    (IF scope_exit
                     THEN OnInterruptTickScopeExit(any_ic_changed_)
                     ELSE any_ic_changed_)
               /\ ev' = [early EXCEPT
                           !.path = r.path, !.marks = r.marks, !.d = r.d,
                           !.ic = (r.path = "decided" /\ any_ic_changed_),
                           !.arg = current_offset]
       /\ UNCHANGED <<flags, is_user_javascript, bytecode_length,
                      has_optimized_code, optimization_disabled, osr_cache>>
       /\ UNCHANGED bvars

\* OnInterruptTick(function), from its call to its return
OnInterruptTick == OnInterruptTickUpTo(TRUE) /\ UNCHANGED hvars

\* A direct call of AttemptOnStackReplacement(frame, n) on an interpreted
\* frame of the function (runtime directive).
CallAttemptOnStackReplacement ==
  \E n \in 0..MaxNestingArg :
    /\ osr_loop_nesting_level' =
         AttemptOnStackReplacement(osr_loop_nesting_level, n)
    /\ ev' = [EvNone EXCEPT !.op = "AttemptOnStackReplacement", !.arg = n]
    /\ UNCHANGED <<flags, is_user_javascript, bytecode_length,
                   has_feedback_vector, profiler_ticks, marker,
                   has_optimized_code, tier, optimization_disabled, osr_cache,
                   any_ic_changed_, baseline_pending>>
    /\ UNCHANGED <<bvars, hvars>>

\* the store of NotifyICChanged()
SetAnyICChanged ==
  /\ any_ic_changed_' = TRUE
  /\ ev' = EvNone
  /\ UNCHANGED <<flags, is_user_javascript, bytecode_length,
                 has_feedback_vector, profiler_ticks, marker,
                 has_optimized_code, tier, optimization_disabled,
                 osr_loop_nesting_level, osr_cache, baseline_pending>>
  /\ UNCHANGED bvars

\* NotifyICChanged()
NotifyICChanged == SetAnyICChanged /\ UNCHANGED hvars

\* OnInterruptTick of another function, as far as it touches the state kept
\* here: it stops early (no feedback vector yet, or no optimizer) or goes
\* through its OnInterruptTickScope, whose exit stores to any_ic_changed_.
OtherFunctionTickUpTo(scope_exit) ==
  \E enters \in BOOLEAN :
    /\ any_ic_changed_' =
         (IF enters /\ scope_exit
          THEN OnInterruptTickScopeExit(any_ic_changed_)
          ELSE any_ic_changed_)
    /\ ev' = [EvNone EXCEPT !.op = "OnInterruptTickOther",
                            !.path = IF enters THEN "scope" ELSE "early"]
    /\ UNCHANGED <<flags, is_user_javascript, bytecode_length,
                   has_feedback_vector, profiler_ticks, marker,
                   has_optimized_code, tier, optimization_disabled,
                   osr_loop_nesting_level, osr_cache, baseline_pending>>
    /\ UNCHANGED bvars

\* The ticks and notifications of one thread, with the history of the
\* notifications: a tick that returns ends the window of notified_since_tick,
\* a tick that went through its scope also that of notified_since_scope.
TickInWindow ==
  /\ OnInterruptTickUpTo(TRUE)
  /\ notified_since_tick' = FALSE
  /\ notified_since_scope' =
       (notified_since_scope /\ ev'.path \in {"no_vector", "no_optimizer"})
  /\ UNCHANGED <<tick_pc, notified_in_scope>>

OtherTickInWindow ==
  /\ OtherFunctionTickUpTo(TRUE)
  /\ notified_since_tick' = FALSE
  /\ notified_since_scope' = (notified_since_scope /\ ev'.path = "early")
  /\ UNCHANGED <<tick_pc, notified_in_scope>>

NotifyInWindow ==
  /\ SetAnyICChanged
  /\ notified_since_tick' = TRUE
  /\ notified_since_scope' = TRUE
  /\ UNCHANGED <<tick_pc, notified_in_scope>>

\* A tick with NotifyICChanged callers on other threads: the tick runs up to
\* the end of its body (TickBody), its OnInterruptTickScope is left in a
\* step of its own (TickScopeExit), and a notification can fall between the
\* two.  The two plain stores to any_ic_changed_ race; the value left is
\* that of the store that comes last.
\* notified_in_scope: a notification fell into a scope that was still open
\* and no tick has taken a decision since.
TickBody ==
  /\ tick_pc = "idle"
  /\ OnInterruptTickUpTo(FALSE)
  /\ tick_pc' = (IF ev'.path \in {"no_vector", "no_optimizer"}
                 THEN "idle" ELSE "in_scope")
  /\ notified_in_scope' = (notified_in_scope /\ tick_pc' = "idle")
  /\ UNCHANGED <<notified_since_tick, notified_since_scope>>

OtherTickBody ==
  /\ tick_pc = "idle"
  /\ OtherFunctionTickUpTo(FALSE)
  /\ tick_pc' = (IF ev'.path = "early" THEN "idle" ELSE "in_scope")
  /\ notified_in_scope' = (notified_in_scope /\ tick_pc' = "idle")
  /\ UNCHANGED <<notified_since_tick, notified_since_scope>>

\* ~OnInterruptTickScope() of the tick in progress
TickScopeExit ==
  /\ tick_pc = "in_scope"
  /\ any_ic_changed_' = OnInterruptTickScopeExit(any_ic_changed_)
  /\ tick_pc' = "idle"
  /\ UNCHANGED <<flags, is_user_javascript, bytecode_length,
                 has_feedback_vector, profiler_ticks, marker,
                 has_optimized_code, tier, optimization_disabled,
                 osr_loop_nesting_level, osr_cache, baseline_pending, ev>>
  /\ UNCHANGED <<notified_since_tick, notified_since_scope,
                 notified_in_scope>>
  /\ UNCHANGED bvars

\* NotifyICChanged() called from any thread, a tick in progress or not
NotifyConcurrent ==
  /\ SetAnyICChanged
  /\ notified_in_scope' = (notified_in_scope \/ tick_pc = "in_scope")
  /\ UNCHANGED <<tick_pc, notified_since_tick, notified_since_scope>>

\* (mutant) the maglev budget for every tier
InterruptBudgetFor_IgnoresTier ==
  IF has_feedback_vector
  THEN (IF flags.maglev THEN FLAG_interrupt_budget_for_maglev
        ELSE FLAG_interrupt_budget)
  ELSE bytecode_length * FLAG_interrupt_budget_factor_for_feedback_allocation

\* InterruptBudgetFor(isolate, function)
InterruptBudgetFor ==
  IF has_feedback_vector
  THEN (IF TiersUpToMaglev(tier) THEN FLAG_interrupt_budget_for_maglev
        ELSE FLAG_interrupt_budget)
  ELSE bytecode_length * FLAG_interrupt_budget_factor_for_feedback_allocation

\* InitialInterruptBudget(), given the value of FLAG_lazy_feedback_allocation
InitialInterruptBudget(lazy_feedback_allocation) ==
  IF lazy_feedback_allocation
  THEN FLAG_interrupt_budget_for_feedback_allocation
  ELSE FLAG_interrupt_budget

\* A call of InterruptBudgetFor(isolate, function)
CallInterruptBudgetFor ==
  /\ ev' = [EvNone EXCEPT !.op = "InterruptBudgetFor",
                          !.ret = InterruptBudgetFor]
  /\ UNCHANGED <<flags, is_user_javascript, bytecode_length,
                 has_feedback_vector, profiler_ticks, marker,
                 has_optimized_code, tier, optimization_disabled,
                 osr_loop_nesting_level, osr_cache, any_ic_changed_,
                 baseline_pending>>
  /\ UNCHANGED <<bvars, hvars>>

\* A call of InitialInterruptBudget(); arg records the flag as 0 or 1
CallInitialInterruptBudget ==
  \E lazy_feedback_allocation \in BOOLEAN :
    /\ ev' = [EvNone EXCEPT
                !.op = "InitialInterruptBudget",
                !.arg = IF lazy_feedback_allocation THEN 1 ELSE 0,
                !.ret = InitialInterruptBudget(lazy_feedback_allocation)]
    /\ UNCHANGED <<flags, is_user_javascript, bytecode_length,
                   has_feedback_vector, profiler_ticks, marker,
                   has_optimized_code, tier, optimization_disabled,
                   osr_loop_nesting_level, osr_cache, any_ic_changed_,
                   baseline_pending>>
    /\ UNCHANGED <<bvars, hvars>>

----------------------------------------------------------------------------
(* Environment of the controller: compile services and the interpreter *)

\* The marked function is invoked: a concurrent request enters the
\* optimization queue; a non-concurrent one is compiled on the spot and either
\* installs code of the requested tier or fails.
CompileOptimized ==
  /\ has_feedback_vector
  /\ \/ /\ IsMarkedForConcurrentOptimization
        /\ marker' = "kInOptimizationQueue"
        /\ UNCHANGED <<has_optimized_code, tier, optimization_disabled>>
     \/ /\ IsMarkedForOptimization
        /\ marker' = "kNone"
        /\ \E ok \in BOOLEAN, disable \in BOOLEAN :
             IF ok
             THEN /\ has_optimized_code' = TRUE
                  /\ tier' = IF marker = "kCompileMaglev_NotConcurrent"
                                  /\ tier # "TURBOFAN"
                             THEN "MAGLEV" ELSE "TURBOFAN"
                  /\ UNCHANGED optimization_disabled
             ELSE /\ optimization_disabled' = (optimization_disabled \/ disable)
                  /\ UNCHANGED <<has_optimized_code, tier>>
  /\ ev' = EvNone
  /\ UNCHANGED <<flags, is_user_javascript, bytecode_length,
                 has_feedback_vector, profiler_ticks, osr_loop_nesting_level,
                 osr_cache, any_ic_changed_, baseline_pending>>
  /\ UNCHANGED <<bvars, hvars>>

\* The concurrent compile job of a queued function completes: code is
\* installed, or the job fails (possibly disabling optimization for good).
FinishConcurrentCompile ==
  /\ IsInOptimizationQueue
  /\ marker' = "kNone"
  /\ \E ok \in BOOLEAN, disable \in BOOLEAN :
       IF ok
       THEN /\ has_optimized_code' = TRUE
            /\ tier' = "TURBOFAN"
            /\ UNCHANGED optimization_disabled
       ELSE /\ optimization_disabled' = (optimization_disabled \/ disable)
            /\ UNCHANGED <<has_optimized_code, tier>>
  /\ ev' = EvNone
  /\ UNCHANGED <<flags, is_user_javascript, bytecode_length,
                 has_feedback_vector, profiler_ticks, osr_loop_nesting_level,
                 osr_cache, any_ic_changed_, baseline_pending>>
  /\ UNCHANGED <<bvars, hvars>>

\* The baseline batch compiler installs baseline code for the queued function.
BaselineBatchInstall ==
  /\ baseline_pending
  /\ baseline_pending' = FALSE
  /\ tier' = IF tier = "INTERPRETED_FUNCTION" THEN "BASELINE" ELSE tier
  /\ ev' = EvNone
  /\ UNCHANGED <<flags, is_user_javascript, bytecode_length,
                 has_feedback_vector, profiler_ticks, marker,
                 has_optimized_code, optimization_disabled,
                 osr_loop_nesting_level, osr_cache, any_ic_changed_>>
  /\ UNCHANGED <<bvars, hvars>>

\* The interpreter executes an armed JumpLoop (loop depth below the nesting
\* level): the OSR request clears the nesting level and, when the OSR compile
\* succeeds, the loop's jump offset is recorded in the OSR code cache.
OsrTriggered ==
  \E l \in JumpLoops, ok \in BOOLEAN :
    /\ l.imm < osr_loop_nesting_level
    /\ osr_loop_nesting_level' = 0
    /\ osr_cache' = IF ok /\ \A i \in 1..Len(osr_cache) :
                               osr_cache[i] # l.jump_offset
                    THEN Append(osr_cache, l.jump_offset)
                    ELSE osr_cache
    /\ ev' = EvNone
    /\ UNCHANGED <<flags, is_user_javascript, bytecode_length,
                   has_feedback_vector, profiler_ticks, marker,
                   has_optimized_code, tier, optimization_disabled,
                   any_ic_changed_, baseline_pending>>
    /\ UNCHANGED <<bvars, hvars>>

----------------------------------------------------------------------------
(* Builtins registry: catalog and memory layout *)

\* number of builtins of the modelled catalog (Builtins::kBuiltinCount)
kBuiltinCount == 4
\* Builtins::kLastTier0: the tier-0 builtins are the ids 0..kLastTier0
kLastTier0 == 1
\* Builtin::kNoBuiltinId
kNoBuiltinId == -1
\* BytecodeOffset::kFirstBuiltinContinuationId
kFirstBuiltinContinuationId == 1
\* address (in Address-sized slots) of the isolate's builtin table
kBuiltinTableAddress == 2
\* address of the first instruction of the embedded blob
kEmbeddedBlobCode == 4
\* padded size of one builtin's instructions in the embedded blob
kPaddedInstructionSize == 2

kFirst == 0
kLast == kBuiltinCount - 1
BuiltinIds == kFirst..kLast
IsBuiltinId(id) == kFirst <= id /\ id <= kLast

BuiltinKinds == <<"TFJ", "CPP", "TFC", "TFS", "TFH", "ASM", "BCH">>

\* builtin_metadata[index]
builtin_metadata(index) ==
  [name |-> "Builtin_" \o ToString(index),
   kind |-> BuiltinKinds[(index % Len(BuiltinKinds)) + 1]]

name(builtin) == builtin_metadata(builtin).name
KindOf(builtin) == builtin_metadata(builtin).kind

\* EmbeddedData::InstructionStartOf / InstructionSizeOf: the builtins lie
\* back to back in the blob, each padded to kPaddedInstructionSize.
InstructionStartOf(builtin) == kEmbeddedBlobCode + builtin * kPaddedInstructionSize
InstructionSizeOf(builtin) == kPaddedInstructionSize - (builtin % 2)
EmbeddedBlobEnd == kEmbeddedBlobCode + kBuiltinCount * kPaddedInstructionSize

\* Code objects.  A builtin's Code is either the embedded one (instructions in
\* the blob) or one with an on-heap instruction stream, as generated during
\* builtin setup; heap instruction streams lie above the blob.
EmbeddedCode(id) ==
  [builtin_id |-> id, has_instruction_stream |-> FALSE,
   instruction_start |-> InstructionStartOf(id),
   instruction_size |-> InstructionSizeOf(id)]
HeapCode(id) ==
  [builtin_id |-> id, has_instruction_stream |-> TRUE,
   instruction_start |-> EmbeddedBlobEnd + 1 + 2 * id,
   instruction_size |-> 2]
\* contents of a slot nothing was installed in
kUninitialized ==
  [builtin_id |-> kNoBuiltinId, has_instruction_stream |-> FALSE,
   instruction_start |-> 0, instruction_size |-> 0]

\* The heap: the Code object at each address a table slot can hold.  Address
\* 0 stands for the contents of a slot nothing was installed in.
EmbeddedCodePtr(id) == 1 + id
HeapCodePtr(id) == 1 + kBuiltinCount + id
CodePtrs == 1..(2 * kBuiltinCount)
CodeAt(ptr) ==
  IF ptr = 0 THEN kUninitialized
  ELSE IF ptr <= kBuiltinCount THEN EmbeddedCode(ptr - 1)
  ELSE HeapCode(ptr - 1 - kBuiltinCount)

\* program counters and handle locations the queries range over
Pcs == 0..(EmbeddedBlobEnd + 2 * kBuiltinCount + 2)
HandleLocations == 0..(kBuiltinTableAddress + kBuiltinCount + 1)

\* Code::contains(isolate, pc)
contains(c, pc) ==
  c.instruction_start <= pc /\ pc < c.instruction_start + c.instruction_size

\* OffHeapInstructionStream::TryLookupCode(isolate, pc)
TryLookupCode(pc) ==
  IF pc < kEmbeddedBlobCode \/ pc >= EmbeddedBlobEnd THEN kNoBuiltinId
  ELSE (pc - kEmbeddedBlobCode) \div kPaddedInstructionSize

----------------------------------------------------------------------------
(* Builtins *)

GetContinuationBytecodeOffset(builtin) ==
  kFirstBuiltinContinuationId + builtin

\* (mutant) the way back without the base constant
GetBuiltinFromBytecodeOffset_NoBase(id) == id

GetBuiltinFromBytecodeOffset(id) == id - kFirstBuiltinContinuationId

code(builtin) == CodeAt(builtin_table[builtin])

\* code_handle(builtin): the handle's location
code_handle(builtin) == kBuiltinTableAddress + builtin

\* (mutant) a scan that starts one builtin late
ScanHits_SkipsFirst(pc) ==
  {ix \in (kFirst + 1)..kLast : contains(code(ix), pc)}

\* Lookup(pc): the builtins of the linear scan whose code contains pc
ScanHits(pc) == {ix \in BuiltinIds : contains(code(ix), pc)}
FirstScanHit(pc) ==
  CHOOSE ix \in ScanHits(pc) : \A j \in ScanHits(pc) : ix <= j

\* (mutant) a scan that does not wait for the registry to be initialized
Lookup_IgnoresInitialized(pc) ==
  LET builtin == TryLookupCode(pc)
  IN IF IsBuiltinId(builtin) THEN name(builtin)
     ELSE IF ScanHits(pc) # {} THEN name(FirstScanHit(pc))
     ELSE "nullptr"

\* Lookup(pc): a builtin's name, or "nullptr"
Lookup(pc) ==
  LET builtin == TryLookupCode(pc)
  IN IF IsBuiltinId(builtin) THEN name(builtin)
     ELSE IF ~initialized_ THEN "nullptr"
     ELSE IF ScanHits(pc) # {} THEN name(FirstScanHit(pc))
     ELSE "nullptr"

\* (mutant) a range check that rejects the table's first slot
IsBuiltinHandle_OffByOne(handle_location, out) ==
  LET builtins_table == kBuiltinTableAddress
      builtins_table_end == builtins_table + kBuiltinCount
  IN IF handle_location <= builtins_table
     THEN [ret |-> FALSE, builtin |-> out]
     ELSE IF handle_location >= builtins_table_end
     THEN [ret |-> FALSE, builtin |-> out]
     ELSE [ret |-> TRUE, builtin |-> handle_location - builtins_table]

\* IsBuiltinHandle(maybe_code, builtin): return value and the contents of
\* *builtin afterwards, given the handle's location and *builtin before.
IsBuiltinHandle(handle_location, out) ==
  LET builtins_table == kBuiltinTableAddress
      builtins_table_end == builtins_table + kBuiltinCount
  IN IF handle_location < builtins_table
     THEN [ret |-> FALSE, builtin |-> out]
     ELSE IF handle_location >= builtins_table_end
     THEN [ret |-> FALSE, builtin |-> out]
     ELSE [ret |-> TRUE, builtin |-> handle_location - builtins_table]

\* (mutant) set_code writing the neighbouring slot
set_code_index_Shifted(builtin) == (builtin + 1) % kBuiltinCount

\* the slot set_code(builtin, code) writes
set_code_index(builtin) == builtin

QNone == [op |-> "none", arg |-> 0, init |-> 0, ret |-> FALSE,
          builtin |-> 0, name |-> "nullptr"]

\* set_code(builtin, code), called with code->builtin_id() == builtin
set_code ==
  \E builtin \in BuiltinIds, ptr \in CodePtrs :
    /\ builtin = CodeAt(ptr).builtin_id
    /\ builtin_table' = [builtin_table EXCEPT ![set_code_index(builtin)] = ptr]
    /\ q' = [QNone EXCEPT !.op = "set_code", !.arg = builtin]
    /\ UNCHANGED <<builtin_entry_table, builtin_tier0_table,
                   builtin_tier0_entry_table, initialized_>>
    /\ UNCHANGED <<tvars, hvars>>

\* Builtins::MarkInitialized, once every builtin is installed
MarkInitialized ==
  /\ ~initialized_
  /\ \A id \in BuiltinIds : builtin_table[id] # 0
  /\ initialized_' = TRUE
  /\ q' = [QNone EXCEPT !.op = "MarkInitialized"]
  /\ UNCHANGED <<builtin_table, builtin_entry_table, builtin_tier0_table,
                 builtin_tier0_entry_table>>
  /\ UNCHANGED <<tvars, hvars>>

TearDown ==
  /\ initialized_
  /\ initialized_' = FALSE
  /\ q' = [QNone EXCEPT !.op = "TearDown"]
  /\ UNCHANGED <<builtin_table, builtin_entry_table, builtin_tier0_table,
                 builtin_tier0_entry_table>>
  /\ UNCHANGED <<tvars, hvars>>

\* (mutant) a tier-0 copy that starts one slot late
T0Mirror_Shifted(table) == [i \in kFirst..kLastTier0 |-> table[i + 1]]

\* lines 456-462: the tier-0 copy of a table's slots kFirst..kLastTier0
T0Mirror(table) == [i \in kFirst..kLastTier0 |-> table[i]]

\* InitializeIsolateDataTables(isolate), called once every builtin's embedded
\* Code is installed
InitializeIsolateDataTables ==
  /\ \A i \in BuiltinIds :
       /\ IsBuiltinId(code(i).builtin_id)
       /\ ~code(i).has_instruction_stream
  /\ builtin_entry_table' = [i \in BuiltinIds |-> InstructionStartOf(i)]
  /\ builtin_tier0_entry_table' = T0Mirror(builtin_entry_table')
  /\ builtin_tier0_table' = T0Mirror(builtin_table)
  /\ q' = [QNone EXCEPT !.op = "InitializeIsolateDataTables"]
  /\ UNCHANGED <<builtin_table, initialized_>>
  /\ UNCHANGED <<tvars, hvars>>

\* A call of Lookup(pc)
CallLookup ==
  \E pc \in Pcs :
    /\ q' = [QNone EXCEPT !.op = "Lookup", !.arg = pc, !.name = Lookup(pc)]
    /\ UNCHANGED <<builtin_table, builtin_entry_table, builtin_tier0_table,
                   builtin_tier0_entry_table, initialized_>>
    /\ UNCHANGED <<tvars, hvars>>

\* A call of IsBuiltinHandle(handle, &builtin)
CallIsBuiltinHandle ==
  \E handle_location \in HandleLocations, out \in {kNoBuiltinId, kLast} :
    /\ LET r == IsBuiltinHandle(handle_location, out)
       IN q' = [QNone EXCEPT !.op = "IsBuiltinHandle",
                             !.arg = handle_location, !.init = out,
                             !.ret = r.ret, !.builtin = r.builtin]
    /\ UNCHANGED <<builtin_table, builtin_entry_table, builtin_tier0_table,
                   builtin_tier0_entry_table, initialized_>>
    /\ UNCHANGED <<tvars, hvars>>

\* builtins a continuation may resume into
IsContinuationKind(builtin) == KindOf(builtin) \in {"TFJ", "TFC", "TFS"}

\* GetContinuationBytecodeOffset(builtin), then the way back
CallGetContinuationBytecodeOffset ==
  \E builtin \in BuiltinIds :
    /\ IsContinuationKind(builtin)
    /\ LET id == GetContinuationBytecodeOffset(builtin)
       IN q' = [QNone EXCEPT !.op = "GetContinuationBytecodeOffset",
                             !.arg = builtin, !.init = id,
                             !.builtin = GetBuiltinFromBytecodeOffset(id)]
    /\ UNCHANGED <<builtin_table, builtin_entry_table, builtin_tier0_table,
                   builtin_tier0_entry_table, initialized_>>
    /\ UNCHANGED <<tvars, hvars>>

\* GetBuiltinFromBytecodeOffset(id), then the way back
CallGetBuiltinFromBytecodeOffset ==
  \E id \in 0..(kBuiltinCount + kFirstBuiltinContinuationId + 1) :
    LET builtin == GetBuiltinFromBytecodeOffset(id)
    IN /\ IsBuiltinId(builtin)
       /\ IsContinuationKind(builtin)
       /\ q' = [QNone EXCEPT !.op = "GetBuiltinFromBytecodeOffset",
                             !.arg = id, !.builtin = builtin,
                             !.init = GetContinuationBytecodeOffset(builtin)]
       /\ UNCHANGED <<builtin_table, builtin_entry_table, builtin_tier0_table,
                      builtin_tier0_entry_table, initialized_>>
       /\ UNCHANGED <<tvars, hvars>>

----------------------------------------------------------------------------
(* Specifications *)

FlagSets == [use_osr : BOOLEAN, maglev : BOOLEAN, always_osr : BOOLEAN,
             testing_d8_test_runner : BOOLEAN,
             baseline_batch_compilation : BOOLEAN]

\* a function as allocated: no feedback vector yet, interpreted
InitFunction ==
  /\ has_feedback_vector = FALSE
  /\ profiler_ticks = 0
  /\ marker = "kNone"
  /\ has_optimized_code = FALSE
  /\ tier = "INTERPRETED_FUNCTION"
  /\ optimization_disabled = FALSE
  /\ osr_loop_nesting_level = 0
  /\ osr_cache = <<>>
  /\ any_ic_changed_ = FALSE
  /\ baseline_pending = FALSE
  /\ ev = EvNone

\* no tick in progress, no notification yet
InitHistory ==
  /\ tick_pc = "idle"
  /\ notified_since_tick = FALSE
  /\ notified_since_scope = FALSE
  /\ notified_in_scope = FALSE

\* an isolate before builtin setup
InitRegistry ==
  /\ builtin_table = [i \in BuiltinIds |-> 0]
  /\ builtin_entry_table = [i \in BuiltinIds |-> 0]
  /\ builtin_tier0_table = [i \in kFirst..kLastTier0 |-> 0]
  /\ builtin_tier0_entry_table = [i \in kFirst..kLastTier0 |-> 0]
  /\ initialized_ = FALSE
  /\ q = QNone

Init ==
  /\ flags \in FlagSets
  /\ is_user_javascript \in BOOLEAN
  /\ bytecode_length \in BytecodeLengths
  /\ InitFunction
  /\ InitRegistry
  /\ InitHistory

Next ==
  \/ OnInterruptTick
  \/ CallAttemptOnStackReplacement
  \/ NotifyICChanged
  \/ CompileOptimized
  \/ FinishConcurrentCompile
  \/ BaselineBatchInstall
  \/ OsrTriggered

\* the tiering controller with its environment
Spec == Init /\ [][Next]_vars

InitBuiltins ==
  /\ flags = [use_osr |-> TRUE, maglev |-> FALSE, always_osr |-> FALSE,
              testing_d8_test_runner |-> FALSE,
              baseline_batch_compilation |-> FALSE]
  /\ is_user_javascript = TRUE
  /\ bytecode_length = 40
  /\ InitFunction
  /\ InitRegistry
  /\ InitHistory

NextBuiltins ==
  \/ set_code
  \/ MarkInitialized
  \/ TearDown
  \/ InitializeIsolateDataTables
  \/ CallLookup
  \/ CallIsBuiltinHandle
  \/ CallGetContinuationBytecodeOffset
  \/ CallGetBuiltinFromBytecodeOffset

\* the builtins registry
SpecBuiltins == InitBuiltins /\ [][NextBuiltins]_vars

\* A user-JavaScript function with OSR enabled whose interpreted frame keeps
\* being ticked, and whose concurrent compile jobs all come to an end.
InitLive ==
  /\ flags \in {f \in FlagSets : /\ f.use_osr
                                  /\ ~f.always_osr
                                  /\ ~f.testing_d8_test_runner
                                  /\ f.baseline_batch_compilation}
  /\ is_user_javascript = TRUE
  /\ bytecode_length \in BytecodeLengths
  /\ InitFunction
  /\ InitRegistry
  /\ InitHistory

\* Functions as the budget queries meet them: without a feedback vector (and
\* then interpreted), or with one, at any tier.
InitBudget ==
  /\ flags \in FlagSets
  /\ is_user_javascript = TRUE
  /\ bytecode_length \in BytecodeLengths
  /\ has_feedback_vector \in BOOLEAN
  /\ tier \in CodeKinds
  /\ ~has_feedback_vector => tier = "INTERPRETED_FUNCTION"
  /\ has_optimized_code = (tier \in {"MAGLEV", "TURBOFAN"})
  /\ profiler_ticks = 0
  /\ marker = "kNone"
  /\ optimization_disabled = FALSE
  /\ osr_loop_nesting_level = 0
  /\ osr_cache = <<>>
  /\ any_ic_changed_ = FALSE
  /\ baseline_pending = FALSE
  /\ ev = EvNone
  /\ InitRegistry
  /\ InitHistory

NextBudget ==
  \/ CallInterruptBudgetFor
  \/ CallInitialInterruptBudget

\* the interrupt-budget queries
SpecBudget == InitBudget /\ [][NextBudget]_vars

\* Ticks and IC notifications on the execution thread, for a user-JavaScript
\* function without OSR and with synchronous baseline compiles.
InitWindow ==
  /\ flags \in {f \in FlagSets : /\ ~f.use_osr
                                  /\ ~f.always_osr
                                  /\ ~f.baseline_batch_compilation}
  /\ is_user_javascript = TRUE
  /\ bytecode_length \in BytecodeLengths
  /\ InitFunction
  /\ InitRegistry
  /\ InitHistory

NextWindow ==
  \/ TickInWindow
  \/ OtherTickInWindow
  \/ NotifyInWindow
  \/ CompileOptimized
  \/ FinishConcurrentCompile

\* the IC-change flag over ticks and notifications
SpecICWindow == InitWindow /\ [][NextWindow]_vars

\* MaybeOSR(function, frame) called by a tick whose incremented tick count
\* is profiler_ticks, on a bytecode array not yet armed to the full depth
CallMaybeOSR ==
  /\ osr_loop_nesting_level < kMaxLoopNestingMarker
  /\ \E allowance \in OSRAllowances(profiler_ticks) :
       LET r == MaybeOSR(osr_loop_nesting_level, allowance)
       IN /\ osr_loop_nesting_level' = r.level
          /\ ev' = [EvNone EXCEPT
                      !.op = "MaybeOSR",
                      !.ret = allowance,
                      !.path = IF ~r.ret THEN "none"
                               ELSE IF r.level > osr_loop_nesting_level
                               THEN "armed" ELSE "too_large"]
  /\ UNCHANGED <<flags, is_user_javascript, bytecode_length,
                 has_feedback_vector, profiler_ticks, marker,
                 has_optimized_code, tier, optimization_disabled, osr_cache,
                 any_ic_changed_, baseline_pending>>
  /\ UNCHANGED <<bvars, hvars>>

\* Functions as MaybeOSR meets them with OSR enabled: user JavaScript,
\* interpreted, marked for optimization, at any tick count up to the
\* counter's limit.
InitAllowance ==
  /\ flags \in {f \in FlagSets : /\ f.use_osr
                                  /\ ~f.always_osr
                                  /\ ~f.maglev
                                  /\ ~f.testing_d8_test_runner}
  /\ is_user_javascript = TRUE
  /\ bytecode_length \in BytecodeLengths
  /\ has_feedback_vector = TRUE
  /\ profiler_ticks \in 0..kSmiMaxValue
  /\ marker \in {"kCompileTurbofan_NotConcurrent",
                 "kCompileTurbofan_Concurrent"}
  /\ has_optimized_code = FALSE
  /\ tier = "INTERPRETED_FUNCTION"
  /\ optimization_disabled = FALSE
  /\ osr_loop_nesting_level = 0
  /\ osr_cache = <<>>
  /\ any_ic_changed_ = FALSE
  /\ baseline_pending = FALSE
  /\ ev = EvNone
  /\ InitRegistry
  /\ InitHistory

NextAllowance == CallMaybeOSR

\* the OSR size allowance over the whole range of the tick counter
SpecAllowance == InitAllowance /\ [][NextAllowance]_vars

NextConcurrent ==
  \/ TickBody
  \/ OtherTickBody
  \/ TickScopeExit
  \/ NotifyConcurrent

\* ticks with IC notifications from other threads
SpecConcurrentIC == InitWindow /\ [][NextConcurrent]_vars

Fairness == WF_vars(OnInterruptTick) /\ WF_vars(FinishConcurrentCompile)

SpecLive == InitLive /\ [][Next]_vars /\ Fairness

----------------------------------------------------------------------------
(* Properties of the tiering controller (checked under Spec) *)

ControllerOps == {"OnInterruptTick", "AttemptOnStackReplacement"}

\* C1 - No double enqueue: a tick that starts while the function is in the
\* optimization queue issues no MarkForOptimization call and leaves the
\* optimization marker alone, whatever the flags, ticks and IC state are.
C1_NoDoubleEnqueue ==
  [][(ev'.op = "OnInterruptTick" /\ IsInOptimizationQueue)
       => (ev'.marks = 0 /\ marker' = marker)]_vars

\* a tick found the function in the queue and returned
C1_Witness ==
  /\ ev.op = "OnInterruptTick"
  /\ ev.path = "in_queue"
  /\ IsInOptimizationQueue

\* C2 - OSR monotonicity (as claimed): no controller operation lowers
\* osr_loop_nesting_level, and the level never exceeds kMaxLoopNestingMarker.
C2_OsrMonotonic ==
  [][/\ (ev'.op \in ControllerOps
           => osr_loop_nesting_level' >= osr_loop_nesting_level)
     /\ osr_loop_nesting_level' <= kMaxLoopNestingMarker]_vars

\* C3 - Disabled honors: a tick or a direct AttemptOnStackReplacement call
\* that starts with optimization_disabled set issues no MarkForOptimization
\* call and leaves the marker and osr_loop_nesting_level as they were.
C3_DisabledHonors ==
  [][(ev'.op \in ControllerOps /\ optimization_disabled)
       => /\ ev'.marks = 0
          /\ marker' = marker
          /\ osr_loop_nesting_level' = osr_loop_nesting_level]_vars

\* a tick stopped at the disabled check, with always_osr on and the OSR code
\* cache populated
C3_Witness ==
  /\ ev.op = "OnInterruptTick"
  /\ ev.path = "disabled"
  /\ optimization_disabled
  /\ flags.always_osr
  /\ Len(osr_cache) > 0

\* C4 - Monotonic profiling: profiler_ticks never decreases, only a tick
\* changes it, a tick raises it by at most 1, and it never passes the
\* saturation limit (so at the limit it stays there).
C4_MonotonicProfiling ==
  [][/\ profiler_ticks' >= profiler_ticks
     /\ profiler_ticks' <= profiler_ticks + 1
     /\ profiler_ticks' <= kMaxProfilerTicks
     /\ (ev'.op # "OnInterruptTick" => profiler_ticks' = profiler_ticks)]_vars

\* a tick went through the tiering scope with the counter at its limit
C4_Witness ==
  /\ ev.op = "OnInterruptTick"
  /\ ev.path \notin {"no_vector", "no_optimizer"}
  /\ profiler_ticks = kMaxProfilerTicks

\* C5 - Tier ceiling: after a tick on a function whose active tier is
\* TURBOFAN, ShouldOptimize (if it was evaluated) returned DoNotOptimize and
\* no MarkForOptimization call was issued.
C5_TierCeiling ==
  (ev.op = "OnInterruptTick" /\ tier = "TURBOFAN")
    => (ev.d \in {NoDecision, DoNotOptimize} /\ ev.marks = 0)

\* ShouldOptimize was evaluated for a top-tier function with cached OSR code
C5_Witness ==
  /\ ev.op = "OnInterruptTick"
  /\ tier = "TURBOFAN"
  /\ ev.d = DoNotOptimize
  /\ Len(osr_cache) > 0

\* C6 - Small-function guard: when any_ic_changed_ was true as ShouldOptimize
\* was evaluated, the decision is not TurbofanSmallFunction.
C6_SmallFunctionGuard ==
  (ev.op = "OnInterruptTick" /\ ev.ic) => ev.d # TurbofanSmallFunction

\* a small function, below the tick threshold, was not optimized because an
\* IC had changed
C6_Witness ==
  /\ ev.op = "OnInterruptTick"
  /\ ev.ic
  /\ ev.d = DoNotOptimize
  /\ bytecode_length < FLAG_max_bytecode_size_for_early_opt
  /\ profiler_ticks < FLAG_ticks_before_optimization
  /\ tier # "TURBOFAN"

----------------------------------------------------------------------------
(* Properties of the builtins registry (checked under SpecBuiltins) *)

\* C7 - Builtin table identity: every installed slot id holds a Code whose
\* builtin_id is id; once the registry is initialized every slot does; and
\* set_code(id, c) changes no slot other than id.
C7_BuiltinTableIdentity ==
  [][/\ \A id \in BuiltinIds :
          builtin_table'[id] # 0 => CodeAt(builtin_table'[id]).builtin_id = id
     /\ initialized_' =>
          \A id \in BuiltinIds : CodeAt(builtin_table'[id]).builtin_id = id
     /\ q'.op = "set_code"
          => \A j \in BuiltinIds \ {q'.arg} :
               builtin_table'[j] = builtin_table[j]]_vars

\* set_code replaced a slot of the initialized registry
C7_Witness ==
  /\ initialized_
  /\ q.op = "set_code"
  /\ code(q.arg) = HeapCode(q.arg)
  /\ \E j \in BuiltinIds : code(j) = EmbeddedCode(j)

\* C8 - Handle round-trip: IsBuiltinHandle(code_handle(id)) is true with
\* index id for every builtin id; for a location outside the table's range it
\* is false and *builtin keeps its value; whatever the slots contain.
C8_HandleRoundTrip ==
  q.op = "IsBuiltinHandle" =>
    /\ \A id \in BuiltinIds :
         q.arg = code_handle(id) => (q.ret /\ q.builtin = id)
    /\ (q.arg < kBuiltinTableAddress
          \/ q.arg >= kBuiltinTableAddress + kBuiltinCount)
         => (~q.ret /\ q.builtin = q.init)

\* the handle of the first builtin, whose slot holds nothing yet
C8_Witness ==
  /\ q.op = "IsBuiltinHandle"
  /\ q.arg = code_handle(kFirst)
  /\ q.ret
  /\ q.builtin = kFirst
  /\ builtin_table[kFirst] = 0

\* C9 - Lookup round-trip (as claimed): for every builtin id and every pc
\* inside the instruction range of id's code, Lookup(pc) returns name(id).
C9_LookupRoundTrip ==
  q.op = "Lookup" =>
    \A id \in BuiltinIds : contains(code(id), q.arg) => q.name = name(id)

\* C9 (amended) - the same, provided the registry is initialized or id's code
\* is the embedded one.
C9_LookupRoundTripInitialized ==
  q.op = "Lookup" =>
    \A id \in BuiltinIds :
      (contains(code(id), q.arg)
         /\ (initialized_ \/ ~code(id).has_instruction_stream))
        => q.name = name(id)

\* the linear scan found the pc in the on-heap code of a builtin
C9_Witness ==
  /\ q.op = "Lookup"
  /\ initialized_
  /\ \E id \in BuiltinIds :
       /\ code(id) = HeapCode(id)
       /\ contains(code(id), q.arg)
       /\ q.name = name(id)

\* C10 - Continuation-offset bijection: for builtins of kind TFJ, TFC or TFS
\* the two conversions are inverse to each other, and distinct builtins have
\* distinct offsets.
C10_ContinuationBijection ==
  /\ q.op = "GetContinuationBytecodeOffset" => q.builtin = q.arg
  /\ q.op = "GetBuiltinFromBytecodeOffset" => q.init = q.arg
  /\ \A b1, b2 \in {b \in BuiltinIds : IsContinuationKind(b)} :
       b1 # b2 =>
         GetContinuationBytecodeOffset(b1) # GetContinuationBytecodeOffset(b2)

\* the offset of the last continuation builtin was converted back
C10_Witness ==
  /\ q.op = "GetBuiltinFromBytecodeOffset"
  /\ q.builtin # kFirst
  /\ IsContinuationKind(q.builtin)
  /\ q.init = q.arg

----------------------------------------------------------------------------
(* Properties of the tick's steps (checked under Spec) *)

\* C11 - No error leaves a tick: whenever OnInterruptTick has returned, no
\* exception is pending, also when its synchronous baseline compile failed.
C11_NoErrorLeavesTick ==
  ev.op = "OnInterruptTick" => ~ev.pending_exception

\* a tick whose synchronous baseline compile failed
C11_Witness ==
  /\ ev.op = "OnInterruptTick"
  /\ ev.baseline = "failed"
  /\ ~ev.pending_exception

\* C13 - Early-stop ticks do no tiering: a tick that starts without a feedback
\* vector, or that finds the optimizer disabled, leaves profiler_ticks, the
\* optimization marker and osr_loop_nesting_level as they were and marks
\* nothing; after it the function has a feedback vector.
C13_EarlyStopTicks ==
  [][(ev'.op = "OnInterruptTick"
        /\ (~has_feedback_vector \/ ev'.path = "no_optimizer"))
       => /\ profiler_ticks' = profiler_ticks
          /\ marker' = marker
          /\ osr_loop_nesting_level' = osr_loop_nesting_level
          /\ ev'.marks = 0
          /\ ev'.d = NoDecision
          /\ has_feedback_vector']_vars

\* a tick stopped at the optimizer check after its baseline step took effect,
\* on a function that later ticks would have marked
C13_Witness ==
  /\ ev.op = "OnInterruptTick"
  /\ ev.path = "no_optimizer"
  /\ ev.baseline = "compiled"
  /\ tier = "BASELINE"
  /\ marker = "kNone"
  /\ profiler_ticks >= FLAG_ticks_before_optimization

----------------------------------------------------------------------------
(* Progress of on-stack replacement (checked under SpecLive) *)

\* C12 - Hot loops eventually OSR (as claimed): if the function is never
\* optimization-disabled and no tick is stopped by the test-harness gate,
\* then, ticks firing for ever and every queue period ending,
\* osr_loop_nesting_level eventually is greater than 0.
C12_HotLoopsEventuallyOSR ==
  ([]~optimization_disabled /\ [](ev.path # "gate"))
    => <>(osr_loop_nesting_level > 0)

\* a tick that got as far as the OSR step of MaybeOptimizeFrame, where it
\* found the function marked or with optimized code
ArmingTick ==
  /\ ev.op = "OnInterruptTick"
  /\ ev.path = "osr"

\* C12 (amended) - if, in addition, ticks keep getting as far as the OSR step
\* with the function marked for optimization or with optimized code
\* available, osr_loop_nesting_level eventually is greater than 0.
C12_HotLoopsEventuallyOSRWhenMarked ==
  ([]~optimization_disabled /\ []<>ArmingTick)
    => <>(osr_loop_nesting_level > 0)

\* MaybeOSR returned true without arming (the bytecode is longer than the
\* allowance at this tick count), and a later tick can arm
C12_Witness ==
  /\ ev.op = "OnInterruptTick"
  /\ ev.path = "osr"
  /\ osr_loop_nesting_level = 0
  /\ bytecode_length > kOSRBytecodeSizeAllowanceBase +
                         profiler_ticks * kOSRBytecodeSizeAllowancePerTick
  /\ profiler_ticks < kMaxProfilerTicks
  /\ ~optimization_disabled

----------------------------------------------------------------------------
(* Interrupt budgets (checked under SpecBudget) *)

\* C14 - Interrupt budget selection: InterruptBudgetFor returns the maglev
\* budget for a function with a vector whose active tier is unoptimized while
\* the maglev flag is set, the plain budget for any other function with a
\* vector, and length * factor for a function without a vector;
\* InitialInterruptBudget returns the feedback-allocation budget iff lazy
\* feedback allocation is on, else the plain budget.
C14_InterruptBudgetSelection ==
  /\ ev.op = "InterruptBudgetFor" =>
       /\ (has_feedback_vector /\ flags.maglev
             /\ tier \in {"INTERPRETED_FUNCTION", "BASELINE"})
            => ev.ret = FLAG_interrupt_budget_for_maglev
       /\ (has_feedback_vector
             /\ ~(flags.maglev /\ tier \in {"INTERPRETED_FUNCTION", "BASELINE"}))
            => ev.ret = FLAG_interrupt_budget
       /\ ~has_feedback_vector
            => ev.ret = bytecode_length *
                          FLAG_interrupt_budget_factor_for_feedback_allocation
  /\ ev.op = "InitialInterruptBudget" =>
       /\ ev.arg = 1 => ev.ret = FLAG_interrupt_budget_for_feedback_allocation
       /\ ev.arg = 0 => ev.ret = FLAG_interrupt_budget

\* the budget of a function with a vector that runs optimized code while the
\* maglev flag is set
C14_Witness ==
  /\ ev.op = "InterruptBudgetFor"
  /\ has_feedback_vector
  /\ flags.maglev
  /\ tier = "MAGLEV"
  /\ ev.ret = FLAG_interrupt_budget

----------------------------------------------------------------------------
(* Decisions of a tick (checked under Spec) *)

\* The tick that was just taken evaluated ShouldOptimize.
Decided == ev.op = "OnInterruptTick" /\ ev.path = "decided"

\* The cache entries, by position, whose loop range [jump target, jump
\* offset] holds the given frame offset.
BracketingEntries(offset) ==
  {i \in DOMAIN osr_cache :
     \E l \in JumpLoops : /\ l.jump_offset = osr_cache[i]
                          /\ l.jump_target_offset <= offset
                          /\ offset <= l.jump_offset}

\* Ticks a function of this bytecode length needs.
TicksRequired ==
  FLAG_ticks_before_optimization +
  (bytecode_length \div FLAG_bytecode_size_allowance_per_tick)

\* C15 - Hot function tiers up at the threshold tick: with maglev off, below
\* top tier, no OSR-cache hit and any_ic_changed true at the decision, a tick
\* that evaluates ShouldOptimize (function not queued, not disabled, not yet
\* marked) marks the function exactly if profiler_ticks has reached
\* ticks_before_optimization + length / bytecode_size_allowance_per_tick, and
\* then for concurrent TURBOFAN compilation.
C15_HotFunctionTiersUpAtThreshold ==
  (Decided /\ ~flags.maglev /\ tier # "TURBOFAN" /\ ev.ic
     /\ BracketingEntries(ev.arg) = {})
    => /\ ev.marks = 1 <=> profiler_ticks >= TicksRequired
       /\ ev.marks = 1 =>
            /\ marker = "kCompileTurbofan_Concurrent"
            /\ ev.d.optimization_reason = "kHotAndStable"

\* a long function is marked in the tick that brings it to its threshold,
\* ICs having changed
C15_Witness ==
  /\ Decided
  /\ ~flags.maglev
  /\ ev.ic
  /\ ev.marks = 1
  /\ osr_cache = <<>>
  /\ bytecode_length >= FLAG_bytecode_size_allowance_per_tick
  /\ profiler_ticks = TicksRequired

\* The decision table of ShouldOptimize, read top to bottom, on the state
\* after the tick (code kind, ticks) and the tick's observed inputs.
DecisionTable ==
  IF flags.maglev /\ tier \in {"INTERPRETED_FUNCTION", "BASELINE"}
  THEN [optimization_reason |-> "kHotAndStable", code_kind |-> "MAGLEV",
        concurrency_mode |-> "kNotConcurrent"]
  ELSE IF tier = "TURBOFAN"
  THEN [optimization_reason |-> "kDoNotOptimize", code_kind |-> "TURBOFAN",
        concurrency_mode |-> "kConcurrent"]
  ELSE IF BracketingEntries(ev.arg) # {}
  THEN [optimization_reason |-> "kHotAndStable", code_kind |-> "TURBOFAN",
        concurrency_mode |-> "kConcurrent"]
  ELSE IF profiler_ticks >= TicksRequired
  THEN [optimization_reason |-> "kHotAndStable", code_kind |-> "TURBOFAN",
        concurrency_mode |-> "kConcurrent"]
  ELSE IF ~ev.ic /\ bytecode_length < FLAG_max_bytecode_size_for_early_opt
  THEN [optimization_reason |-> "kSmallFunction", code_kind |-> "TURBOFAN",
        concurrency_mode |-> "kConcurrent"]
  ELSE [optimization_reason |-> "kDoNotOptimize", code_kind |-> "TURBOFAN",
        concurrency_mode |-> "kConcurrent"]

\* C16 - ShouldOptimize equals the decision table: whenever a tick evaluated
\* ShouldOptimize its decision is the table's, and a marking follows the
\* decision's tier and concurrency mode.
C16_DecisionTable ==
  Decided =>
    /\ ev.d = DecisionTable
    /\ ev.marks = (IF ev.d.optimization_reason = "kDoNotOptimize" THEN 0 ELSE 1)
    /\ ev.marks = 1 =>
         marker = (IF ev.d.code_kind = "MAGLEV"
                   THEN "kCompileMaglev_NotConcurrent"
                   ELSE "kCompileTurbofan_Concurrent")

\* the small-function row: few ticks, no IC change, short bytecode
C16_Witness ==
  /\ Decided
  /\ ev.d.optimization_reason = "kSmallFunction"
  /\ ~ev.ic
  /\ profiler_ticks < TicksRequired
  /\ Len(osr_cache) > 0
  /\ BracketingEntries(ev.arg) = {}

----------------------------------------------------------------------------
(* On-stack replacement (checked under Spec) *)

\* The function is marked for optimization (either mode) or has optimized
\* code available.
MarkedOrOptimized ==
  \/ marker \in {"kCompileMaglev_NotConcurrent", "kCompileMaglev_Concurrent",
                 "kCompileTurbofan_NotConcurrent",
                 "kCompileTurbofan_Concurrent"}
  \/ has_optimized_code

\* The level after arming n levels on a function that is not disabled.
Armed(n) ==
  IF flags.use_osr /\ is_user_javascript
  THEN (IF osr_loop_nesting_level + n <= kMaxLoopNestingMarker
        THEN osr_loop_nesting_level + n ELSE kMaxLoopNestingMarker)
  ELSE osr_loop_nesting_level

\* C17 - MaybeOSR: with always_osr off, a tick that gets to the OSR step stops
\* there exactly if the function is marked or has optimized code; it then
\* marks nothing and arms one level exactly if length <= 119 + 44 * ticks;
\* otherwise MaybeOSR changes nothing and ShouldOptimize is evaluated.
C17_MaybeOSR ==
  [][(ev'.op = "OnInterruptTick" /\ ev'.path \in {"osr", "decided"}
        /\ ~flags.always_osr)
       => /\ ev'.path = "osr" <=> MarkedOrOptimized
          /\ MarkedOrOptimized =>
               /\ ev'.marks = 0
               /\ marker' = marker
               /\ osr_loop_nesting_level' =
                    (IF bytecode_length <=
                          kOSRBytecodeSizeAllowanceBase +
                          kOSRBytecodeSizeAllowancePerTick * profiler_ticks'
                     THEN Armed(1) ELSE osr_loop_nesting_level)
          /\ (~MarkedOrOptimized /\ BracketingEntries(ev'.arg) = {})
               => osr_loop_nesting_level' = osr_loop_nesting_level]_vars

\* the size gate: optimized code is available, the bytecode is longer than
\* the allowance, and the tick neither arms nor marks
C17_Witness ==
  /\ ev.op = "OnInterruptTick"
  /\ ev.path = "osr"
  /\ has_optimized_code
  /\ marker = "kNone"
  /\ flags.use_osr /\ is_user_javascript
  /\ osr_loop_nesting_level = 0
  /\ bytecode_length > kOSRBytecodeSizeAllowanceBase +
                         kOSRBytecodeSizeAllowancePerTick * profiler_ticks

\* C18 - AttemptOnStackReplacement(frame, n) sets osr_loop_nesting_level to
\* min(current + n, kMaxLoopNestingMarker) when use_osr is on and the function
\* is user JavaScript and not optimization-disabled, else leaves it; it
\* writes nothing else.
C18_AttemptOnStackReplacement ==
  [][ev'.op = "AttemptOnStackReplacement"
       => /\ osr_loop_nesting_level' =
               (IF optimization_disabled THEN osr_loop_nesting_level
                ELSE Armed(ev'.arg))
          /\ marker' = marker
          /\ profiler_ticks' = profiler_ticks]_vars

\* a call with n = 1 that left the level at the maximum
C18_Witness ==
  /\ ev.op = "AttemptOnStackReplacement"
  /\ ev.arg = 1
  /\ flags.use_osr /\ is_user_javascript /\ ~optimization_disabled
  /\ osr_loop_nesting_level = kMaxLoopNestingMarker

\* The first entry, in cache order, that brackets the offset.
FirstBracketing(offset) ==
  CHOOSE i \in BracketingEntries(offset) :
    \A j \in BracketingEntries(offset) : i <= j

\* The loop-depth operand of the JumpLoop at a cached jump offset.
LoopDepthAt(jump_offset) ==
  (CHOOSE l \in JumpLoops : l.jump_offset = jump_offset).imm

\* C19 - OSR arming via cache: with maglev off and below top tier, a tick that
\* evaluates ShouldOptimize with entries in the cache sets
\* osr_loop_nesting_level to the loop depth + 1 of the first entry, in cache
\* order, that brackets the frame's offset and decides TurbofanHotAndStable,
\* whatever the ticks and any_ic_changed are; without a bracketing entry
\* ShouldOptimize leaves the level and the tick/size rules decide.
C19_OsrArmingViaCache ==
  [][(ev'.op = "OnInterruptTick" /\ ev'.path = "decided" /\ ~flags.maglev
        /\ tier' # "TURBOFAN" /\ Len(osr_cache) > 0)
       => IF BracketingEntries(ev'.arg) # {}
          THEN /\ osr_loop_nesting_level' =
                    LoopDepthAt(osr_cache[FirstBracketing(ev'.arg)]) + 1
               /\ ev'.d.optimization_reason = "kHotAndStable"
               /\ ev'.d.code_kind = "TURBOFAN"
          ELSE /\ osr_loop_nesting_level' =
                    (IF flags.always_osr THEN Armed(kMaxLoopNestingMarker)
                     ELSE osr_loop_nesting_level)
               /\ ev'.d.optimization_reason =
                    (IF profiler_ticks' >= TicksRequired
                     THEN "kHotAndStable"
                     ELSE IF ~ev'.ic /\ bytecode_length <
                                          FLAG_max_bytecode_size_for_early_opt
                     THEN "kSmallFunction"
                     ELSE "kDoNotOptimize")]_vars

\* two cached loops bracket the offset, the inner one recorded first: the
\* level is the inner loop's depth + 1, decided below the tick threshold
\* after an IC change
C19_Witness ==
  /\ Decided
  /\ ~flags.maglev
  /\ ~flags.always_osr
  /\ Len(osr_cache) = 2
  /\ BracketingEntries(ev.arg) = {1, 2}
  /\ LoopDepthAt(osr_cache[1]) > LoopDepthAt(osr_cache[2])
  /\ osr_loop_nesting_level = LoopDepthAt(osr_cache[1]) + 1
  /\ ev.ic
  /\ profiler_ticks < TicksRequired
  /\ ev.d.optimization_reason = "kHotAndStable"

\* C20 - OSR is gated on use_osr and user JavaScript: no tick and no
\* AttemptOnStackReplacement call changes osr_loop_nesting_level while use_osr
\* is off or the function is not user JavaScript.
C20_OsrGated ==
  [][(ev'.op \in ControllerOps /\ (~flags.use_osr \/ ~is_user_javascript))
       => osr_loop_nesting_level' = osr_loop_nesting_level]_vars

\* the always_osr path ran on a function that is not user JavaScript
C20_Witness ==
  /\ Decided
  /\ flags.always_osr
  /\ flags.use_osr
  /\ ~is_user_javascript
  /\ ev.marks = 1
  /\ osr_loop_nesting_level = 0

----------------------------------------------------------------------------
(* The baseline step of a tick (checked under Spec) *)

\* C21 - Baseline decision (as claimed): a tick requests a baseline compile
\* only for a function that runs below baseline (a function whose active tier
\* is baseline or higher gets no request); a request is an EnqueueFunction if
\* baseline_batch_compilation is on and a synchronous CompileBaseline if not.
C21_BaselineDecision ==
  [][ev'.op = "OnInterruptTick"
       => /\ ev'.baseline # "none" => tier = "INTERPRETED_FUNCTION"
          /\ ev'.baseline = "enqueued" => flags.baseline_batch_compilation
          /\ ev'.baseline \in {"compiled", "failed"}
               => ~flags.baseline_batch_compilation]_vars

\* C22 - Test-harness gate: a tick that MaybeOptimizeFrame ends at the
\* test-harness check (testing_d8_test_runner on, function not allowed by the
\* pending-optimization table) issues no MarkForOptimization and leaves the
\* optimization marker and osr_loop_nesting_level as they were.
C22_TestHarnessGate ==
  [][(ev'.op = "OnInterruptTick" /\ ev'.path = "gate")
       => /\ flags.testing_d8_test_runner
          /\ ev'.marks = 0
          /\ ev'.d = NoDecision
          /\ marker' = marker
          /\ osr_loop_nesting_level' = osr_loop_nesting_level]_vars

\* the gate stopped a tick on a marked function with always_osr on, a
\* populated OSR code cache and a nesting level that arming would have raised
C22_Witness ==
  /\ ev.op = "OnInterruptTick"
  /\ ev.path = "gate"
  /\ flags.always_osr
  /\ flags.use_osr /\ is_user_javascript /\ ~optimization_disabled
  /\ Len(osr_cache) > 0
  /\ MarkedOrOptimized
  /\ marker # "kNone"
  /\ osr_loop_nesting_level < kMaxLoopNestingMarker

----------------------------------------------------------------------------
(* The IC-change flag (checked under Spec) *)

\* The tick that was just taken entered the OnInterruptTickScope.
EnteredScope ==
  /\ ev.op = "OnInterruptTick"
  /\ ev.path \in {"in_queue", "gate", "disabled", "osr", "decided"}

\* C23 - Scoped tick state: when a tick that entered the OnInterruptTickScope
\* has returned, any_ic_changed_ is false, whichever exit MaybeOptimizeFrame
\* took (in queue, test-harness gate, disabled, MaybeOSR true, decided).
C23_ScopedTickState ==
  /\ EnteredScope => ~any_ic_changed_
  /\ ev.op = "OnInterruptTick"
       => (EnteredScope \/ ev.path \in {"no_vector", "no_optimizer"})

\* the flag was set when ShouldOptimize read it, the function was marked, and
\* the flag is clear after the tick
C23_Witness ==
  /\ Decided
  /\ ev.ic
  /\ ev.marks = 1
  /\ ~any_ic_changed_

----------------------------------------------------------------------------
(* The window of the IC-change flag (checked under SpecICWindow) *)

----------------------------------------------------------------------------
(* The tier-0 tables and the lookup order (checked under SpecBuiltins) *)

\* InitializeIsolateDataTables has run (no instruction starts at address 0).
TablesInitialized == \E id \in BuiltinIds : builtin_entry_table[id] # 0

\* The entry table holds the blob's instruction starts and the tier-0 entry
\* table repeats its first slots.
EntryTablesMirror ==
  /\ \A id \in kFirst..kLast :
       builtin_entry_table[id] = kEmbeddedBlobCode + id * kPaddedInstructionSize
  /\ \A id \in kFirst..kLastTier0 :
       builtin_tier0_entry_table[id] = builtin_entry_table[id]

\* C25 - Tier-0 mirror (as claimed): in every state after
\* InitializeIsolateDataTables, later set_code calls included, every tier-0
\* table slot equals the builtin table slot, every tier-0 entry slot the
\* entry-table slot, and the entry table holds the instruction starts.
C25_Tier0Mirror ==
  TablesInitialized =>
    /\ \A id \in kFirst..kLastTier0 :
         builtin_tier0_table[id] = builtin_table[id]
    /\ EntryTablesMirror

\* C25 (amended) - the entry tables are as claimed in every state after
\* InitializeIsolateDataTables; a tier-0 table slot equals the builtin table
\* slot when InitializeIsolateDataTables returns and from then on until
\* set_code is called for that id.
C25_Tier0MirrorUntilSetCode ==
  [][/\ TablesInitialized' => EntryTablesMirror'
     /\ \A id \in kFirst..kLastTier0 :
          /\ q'.op = "InitializeIsolateDataTables"
               => builtin_tier0_table'[id] = builtin_table'[id]
          /\ (/\ TablesInitialized
              /\ builtin_tier0_table[id] = builtin_table[id]
              /\ ~(q'.op = "set_code" /\ q'.arg = id))
               => builtin_tier0_table'[id] = builtin_table'[id]]_vars

\* after InitializeIsolateDataTables, set_code installed on-heap code for a
\* builtin above the tier-0 range, and the tier-0 slots still mirror
C25_Witness ==
  /\ TablesInitialized
  /\ q.op = "set_code"
  /\ q.arg > kLastTier0
  /\ code(q.arg) = HeapCode(q.arg)
  /\ \A id \in kFirst..kLastTier0 :
       /\ builtin_tier0_table[id] = builtin_table[id]
       /\ builtin_table[id] # 0

\* The builtin whose padded slot of the embedded blob holds pc, if any.
EmbeddedMatch(pc) ==
  {id \in kFirst..kLast :
     /\ kEmbeddedBlobCode + id * kPaddedInstructionSize <= pc
     /\ pc < kEmbeddedBlobCode + (id + 1) * kPaddedInstructionSize}

\* The builtins whose installed code holds pc.
Containing(pc) ==
  {id \in kFirst..kLast :
     LET c == CodeAt(builtin_table[id])
     IN c.instruction_start <= pc
          /\ pc < c.instruction_start + c.instruction_size}

\* The name of the lowest id of a non-empty set of builtins.
NameOfFirst(ids) ==
  "Builtin_" \o ToString(CHOOSE id \in ids : \A j \in ids : id <= j)

\* C26 - Lookup fallback order: Lookup(pc) returns the name of the embedded
\* blob's match when there is one; else, if the registry is initialized, the
\* name of the first builtin, from first to last, whose code contains pc, or
\* none when no code contains pc; else (not initialized: before setup or after
\* TearDown) none, whatever the builtin table holds.
C26_LookupFallbackOrder ==
  q.op = "Lookup" =>
    q.name = (IF EmbeddedMatch(q.arg) # {} THEN NameOfFirst(EmbeddedMatch(q.arg))
              ELSE IF ~initialized_ THEN "nullptr"
              ELSE IF Containing(q.arg) # {} THEN NameOfFirst(Containing(q.arg))
              ELSE "nullptr")

\* after TearDown, a pc inside a builtin's on-heap code is looked up and none
\* is returned
C26_Witness ==
  /\ q.op = "Lookup"
  /\ ~initialized_
  /\ EmbeddedMatch(q.arg) = {}
  /\ Containing(q.arg) # {}
  /\ \A id \in kFirst..kLast : builtin_table[id] # 0
  /\ q.name = "nullptr"

----------------------------------------------------------------------------
(* Marking and enqueueing once (checked under Spec) *)

\* C27 - No re-marking (as claimed): whatever the flags, always_osr on
\* included, a tick on a function that is marked for optimization (either
\* mode) or has optimized code available issues no MarkForOptimization call.
C27_NoReMarking ==
  [][(ev'.op = "OnInterruptTick" /\ MarkedOrOptimized)
       => (ev'.marks = 0 /\ marker' = marker)]_vars

\* C27 (amended) - the same with always_osr off: between a marking and the
\* consumption of the marker no tick marks again.
C27_NoReMarkingWithoutAlwaysOsr ==
  [][(ev'.op = "OnInterruptTick" /\ MarkedOrOptimized /\ ~flags.always_osr)
       => (ev'.marks = 0 /\ marker' = marker)]_vars

\* a tick found the function marked, with ticks past the threshold and the
\* test-harness gate passed, and returned from the OSR step without marking
C27_Witness ==
  /\ ev.op = "OnInterruptTick"
  /\ ev.path = "osr"
  /\ ev.marks = 0
  /\ ~flags.always_osr
  /\ marker \in {"kCompileTurbofan_Concurrent", "kCompileMaglev_NotConcurrent"}
  /\ ~has_optimized_code
  /\ profiler_ticks >= TicksRequired

\* C28 - Baseline enqueue happens once (as claimed): with
\* baseline_batch_compilation on, no tick calls EnqueueFunction for the
\* function while an earlier enqueue is pending (the batch compiler has not
\* installed baseline code yet).
C28_BaselineEnqueueOnce ==
  [][(ev'.op = "OnInterruptTick" /\ flags.baseline_batch_compilation
        /\ baseline_pending)
       => ev'.baseline # "enqueued"]_vars

\* C29 - OSR allowance, no 32-bit wrap (as claimed): for every tick count
\* from 0 to the counter's saturation limit the allowance MaybeOSR computes
\* is the mathematical value 119 + ticks * 44, and the size gate is monotone
\* in the ticks: a bytecode length within the allowance of some tick count
\* is let through at every larger tick count.
C29_OsrAllowanceNoWrap ==
  ev.op = "MaybeOSR" =>
    /\ ev.ret = kOSRBytecodeSizeAllowanceBase +
                  profiler_ticks * kOSRBytecodeSizeAllowancePerTick
    /\ (\E t \in 0..profiler_ticks :
           bytecode_length <= kOSRBytecodeSizeAllowanceBase +
                              t * kOSRBytecodeSizeAllowancePerTick)
         => ev.path = "armed"

----------------------------------------------------------------------------
(* The IC-change flag with notifying threads (checked under SpecConcurrentIC) *)

\* C30 - No IC notification is lost (as claimed): with NotifyICChanged
\* interleaving with a running tick, a notification that arrives after the
\* tick's ShouldOptimize read and before its OnInterruptTickScope is left
\* still suppresses the small-function shortcut in the next tick's decision.
C30_NoICNotificationLost ==
  [][(/\ tick_pc = "idle"
      /\ tick_pc' = "in_scope"
      /\ ev'.op = "OnInterruptTick"
      /\ ev'.path = "decided"
      /\ notified_in_scope)
       => ev'.d # TurbofanSmallFunction]_vars
====
